---- MODULE Spec2Model ----
(***************************************************************************)
(* A model of the GsPack4 Scw4 script tools:                               *)
(*   GsPack4_Scw4_extract.py  (container -> text document)                 *)
(*   GsPack4_Scw4_write.py    (text document + container -> container)     *)
(*                                                                         *)
(* Text is a sequence of characters (one-character strings; "ka" stands    *)
(* for a double-byte kana and "euro" for a character cp932 cannot encode). *)
(* Binary data is a sequence of bytes (0..255).                            *)
(***************************************************************************)
EXTENDS Integers, Sequences, FiniteSets, TLC

-----------------------------------------------------------------------------
(* Program constants *)

Pad2Len == 128
FileHeadLen == 452
\* 16 bytes of magic and 13 little-endian 32-bit integers precede padding2
FixedFieldsLen == 16 + 13 * 4
IndexEntryLen == 8

-----------------------------------------------------------------------------
(* Sequences as Python uses them *)

Min(a, b) == IF a < b THEN a ELSE b
Max(a, b) == IF a > b THEN a ELSE b

\* s[a:b] for 0 <= a, 0 <= b: out-of-range bounds are clipped, never an error
Slice(s, a, b) == SubSeq(s, Min(a, Len(s)) + 1, Min(b, Len(s)))

\* f.seek(pos); f.read(n): a read past the end of the file returns what is there
ReadAt(body, pos, n) == Slice(body, pos, pos + n)

RECURSIVE Concat(_)
\* b''.join(list)
Concat(ss) == IF ss = << >> THEN << >> ELSE Head(ss) \o Concat(Tail(ss))

RECURSIVE SumLen(_)
SumLen(ss) == IF ss = << >> THEN 0 ELSE Len(Head(ss)) + SumLen(Tail(ss))

StartsWith(s, p) == Len(s) >= Len(p) /\ SubSeq(s, 1, Len(p)) = p

\* index (1-based) of the first occurrence of c in s, 0 when there is none
IndexOf(s, c) ==
    IF \E i \in 1..Len(s) : s[i] = c
    THEN CHOOSE i \in 1..Len(s) : s[i] = c /\ \A j \in 1..(i - 1) : s[j] # c
    ELSE 0

-----------------------------------------------------------------------------
(* Characters and the cp932 codec *)

\* printable ASCII, in code order from 32 (dquote, bslash and bquote name the
\* three characters a string literal cannot hold)
Ascii ==
    << " ", "!", "dquote", "#", "$", "%", "&", "'", "(", ")", "*", "+", ",", "-", ".", "/",
       "0", "1", "2", "3", "4", "5", "6", "7", "8", "9", ":", ";", "<", "=", ">", "?",
       "@", "A", "B", "C", "D", "E", "F", "G", "H", "I", "J", "K", "L", "M", "N", "O",
       "P", "Q", "R", "S", "T", "U", "V", "W", "X", "Y", "Z", "[", "bslash", "]", "^", "_",
       "bquote", "a", "b", "c", "d", "e", "f", "g", "h", "i", "j", "k", "l", "m", "n", "o",
       "p", "q", "r", "s", "t", "u", "v", "w", "x", "y", "z", "{", "|", "}", "~" >>

IsAscii(c) == \E i \in 1..Len(Ascii) : Ascii[i] = c

\* s.encode('cp932') of one character; line 106 first, line 108 (errors='replace')
\* for a character the code page does not hold
EncodeChar(c) ==
    IF c = "\n" THEN <<10>>
    ELSE IF c = "\r" THEN <<13>>
    ELSE IF c = "\t" THEN <<9>>
    ELSE IF c = "nul" THEN <<0>>
    ELSE IF c = "ka" THEN <<131, 74>>
    ELSE IF IsAscii(c) THEN <<31 + CHOOSE i \in 1..Len(Ascii) : Ascii[i] = c>>
    ELSE <<63>>

RECURSIVE EncodeStr(_)
EncodeStr(s) == IF s = << >> THEN << >> ELSE EncodeChar(s[1]) \o EncodeStr(Tail(s))

IsLeadByte(b) == (129 <= b /\ b <= 159) \/ (224 <= b /\ b <= 252)

RECURSIVE DecodeStr(_)
\* bytes.decode('cp932', errors='replace'); "ufffd" is the replacement character
DecodeStr(bs) ==
    IF bs = << >> THEN << >>
    ELSE IF bs[1] = 10 THEN <<"\n">> \o DecodeStr(Tail(bs))
    ELSE IF bs[1] = 13 THEN <<"\r">> \o DecodeStr(Tail(bs))
    ELSE IF bs[1] = 9 THEN <<"\t">> \o DecodeStr(Tail(bs))
    ELSE IF bs[1] = 0 THEN <<"nul">> \o DecodeStr(Tail(bs))
    ELSE IF 32 <= bs[1] /\ bs[1] <= 126 THEN <<Ascii[bs[1] - 31]>> \o DecodeStr(Tail(bs))
    ELSE IF IsLeadByte(bs[1]) /\ Len(bs) >= 2 /\ bs[1] = 131 /\ bs[2] = 74
         THEN <<"ka">> \o DecodeStr(Tail(Tail(bs)))
    ELSE <<"ufffd">> \o DecodeStr(Tail(bs))

RECURSIVE RStripNul(_)
\* data.rstrip(b'\x00')
RStripNul(bs) ==
    IF bs # << >> /\ bs[Len(bs)] = 0 THEN RStripNul(SubSeq(bs, 1, Len(bs) - 1)) ELSE bs

\* struct '<I' : a 32-bit little-endian unsigned integer
Pack32(v) == << v % 256, (v \div 256) % 256, (v \div 65536) % 256, (v \div 16777216) % 256 >>
Unpack32(bs, off) ==
    bs[off + 1] + 256 * bs[off + 2] + 65536 * bs[off + 3] + 16777216 * bs[off + 4]

\* struct.pack('<II', start, length)
PackEntry(start, length) == Pack32(start) \o Pack32(length)

-----------------------------------------------------------------------------
(* Text as Python reads and writes it *)

IsSpace(c) == c \in {" ", "\n", "\r", "\t"}

RECURSIVE LStrip(_)
LStrip(s) == IF s # << >> /\ IsSpace(s[1]) THEN LStrip(Tail(s)) ELSE s
RECURSIVE RStrip(_)
RStrip(s) == IF s # << >> /\ IsSpace(s[Len(s)]) THEN RStrip(SubSeq(s, 1, Len(s) - 1)) ELSE s
\* str.strip()
Strip(s) == LStrip(RStrip(s))

RECURSIVE RStripBracket(_)
\* str.rstrip(']')
RStripBracket(s) ==
    IF s # << >> /\ s[Len(s)] = "]" THEN RStripBracket(SubSeq(s, 1, Len(s) - 1)) ELSE s

IsDigit(c) == c \in {"0", "1", "2", "3", "4", "5", "6", "7", "8", "9"}
DigitVal(c) == (CHOOSE i \in 17..26 : Ascii[i] = c) - 17

RECURSIVE DigitsVal(_)
DigitsVal(s) == IF s = << >> THEN 0 ELSE 10 * DigitsVal(SubSeq(s, 1, Len(s) - 1)) + DigitVal(s[Len(s)])

\* int(text): surrounding whitespace and one sign are accepted, anything else
\* raises ValueError (the empty tuple here; a value v is <<v>>)
ValueError == << >>
ParseInt(s) ==
    LET t == Strip(s)
        neg == t # << >> /\ t[1] = "-"
        u == IF t # << >> /\ t[1] \in {"-", "+"} THEN Tail(t) ELSE t
    IN IF u = << >> \/ \E i \in 1..Len(u) : ~IsDigit(u[i]) THEN ValueError
       ELSE IF neg THEN <<0 - DigitsVal(u)>> ELSE <<DigitsVal(u)>>

RECURSIVE StrOfNat(_)
StrOfNat(n) == IF n < 10 THEN <<Ascii[17 + n]>> ELSE StrOfNat(n \div 10) \o <<Ascii[17 + (n % 10)]>>
\* f"{n}" of an int
StrOfInt(n) == IF n < 0 THEN <<"-">> \o StrOfNat(0 - n) ELSE StrOfNat(n)

RECURSIVE SplitLines(_)
\* iterating a file opened in text mode: \n, \r and \r\n all end a line
SplitLines(t) ==
    IF t = << >> THEN << >>
    ELSE LET brk == CHOOSE i \in 1..(Len(t) + 1) :
                        /\ (i = Len(t) + 1 \/ t[i] \in {"\n", "\r"})
                        /\ \A j \in 1..(i - 1) : t[j] \notin {"\n", "\r"}
             skip == IF brk < Len(t) /\ t[brk] = "\r" /\ t[brk + 1] = "\n" THEN brk + 1 ELSE brk
         IN <<SubSeq(t, 1, brk - 1)>> \o SplitLines(SubSeq(t, skip + 1, Len(t)))

-----------------------------------------------------------------------------
(* Containers *)

Magic == <<"S", "c", "w", "4", ".", "x">>

\* An absent value (None, a file that does not exist) is the empty tuple and a
\* present one a one-element tuple.
None == << >>
Some(x) == <<x>>

\* A container file: hdr holds the fields of the 0x1C4-byte header (magic with
\* its NUL padding stripped, description decoded), hdrLen the number of header
\* bytes the file really has, body the bytes that follow offset FileHeadLen.
IndexSize(h) == (h.command_count + h.string_count + h.addon_count) * IndexEntryLen

\* the description as extract_scw_file reads it: f.read(0x100) of a file that
\* ends before the field returns nothing
ReadDescription(f) ==
    IF f.hdrLen <= FixedFieldsLen + Pad2Len THEN << >> ELSE f.hdr.description

-----------------------------------------------------------------------------
(* extract_scw_file *)

TagHeader == <<"[", "H", "e", "a", "d", "e", "r", "]">>
TagIndex == <<"[", "I", "n", "d", "e", "x", "=">>
KeyStringCount == <<"S", "T", "R", "I", "N", "G", "_", "C", "O", "U", "N", "T">>
KeyTextCount == <<"T", "E", "X", "T", "_", "C", "O", "U", "N", "T">>
KeyFileDescription ==
    <<"F", "I", "L", "E", "_", "D", "E", "S", "C", "R", "I", "P", "T", "I", "O", "N">>
Assign == <<" ", "=", " ">>
NL == <<"\n">>

RECURSIVE ReadStrings(_, _, _)
\* the loop of lines 53-69, from string i on
ReadStrings(f, index_data, i) ==
    LET h == f.hdr
        idx_offset == (h.command_count + i) * IndexEntryLen
        string_section_start == IndexSize(h) + h.command_size
        start == Unpack32(index_data, idx_offset)
        length == Unpack32(index_data, idx_offset + 4)
        data == ReadAt(f.body, string_section_start + start, length)
    IN IF i >= h.string_count \/ idx_offset + IndexEntryLen > Len(index_data) THEN << >>
       ELSE <<DecodeStr(RStripNul(data))>> \o ReadStrings(f, index_data, i + 1)

RECURSIVE WriteSections(_, _)
\* lines 77-78
WriteSections(strings, idx) ==
    IF idx > Len(strings) THEN << >>
    ELSE TagIndex \o StrOfInt(idx) \o <<"]">> \o NL \o strings[idx] \o NL \o NL
         \o WriteSections(strings, idx + 1)

\* lines 74-78: the text written to the output file
WriteDocument(string_count, text_count, description, strings) ==
    TagHeader \o NL \o KeyStringCount \o Assign \o StrOfInt(string_count) \o NL
    \o KeyTextCount \o Assign \o StrOfInt(text_count) \o NL
    \o KeyFileDescription \o Assign \o description \o NL \o NL
    \o WriteSections(strings, 1)

\* line 44 left out: the table is taken as read whatever its length
IndexNeverChecked(index_data, index_size) == TRUE

\* the index table is complete (line 44)
IndexComplete(index_data, index_size) == Len(index_data) = index_size

\* extract_scw_file: the decoded strings and the document written, or None when
\* the function returns (or catches an exception) before writing one
ExtractScwFile(f) ==
    LET h == f.hdr
        index_size == IndexSize(h)
        index_data == ReadAt(f.body, 0, index_size)
        strings == ReadStrings(f, index_data, 0)
        nothing == [doc |-> None, strings |-> << >>]
    IN IF h.magic # Magic THEN nothing
       ELSE IF f.hdrLen < FixedFieldsLen THEN nothing
       ELSE IF h.text_count = 0 THEN nothing
       ELSE IF ~IndexComplete(index_data, index_size) THEN nothing
       ELSE [doc |-> Some(WriteDocument(h.string_count, h.text_count,
                                        ReadDescription(f), strings)),
             strings |-> strings]

-----------------------------------------------------------------------------
(* parse_txt *)

\* the state of the scan: the locals of parse_txt, and how it ended ("running";
\* "none" for the return None, None of line 47, which hands back neither the
\* header fields nor the strings; "raised" for an exception of int())
ParseStart ==
    [strings |-> << >>, header |-> [k \in {} |-> << >>], current_index |-> None,
     current_section |-> "None", status |-> "running"]

\* line 45 rejecting only a position beyond the next one
OutOfOrderOnlyGaps(current_index, strings) == current_index > Len(strings) + 1

\* the order check of line 45
OutOfOrder(current_index, strings) == current_index # Len(strings) + 1

DictSet(d, key, value) ==
    [k \in DOMAIN d \cup {key} |-> IF k = key THEN value ELSE d[k]]

\* one iteration of the loop of lines 34-61 on a raw line
ParseLine(st, raw) ==
    LET line == Strip(raw)
        eq == IndexOf(line, "=")
        index_part == RStripBracket(SubSeq(line, eq + 1, Len(line)))
        n == ParseInt(index_part)
        ci == IF st.current_index = None THEN 0 ELSE st.current_index[1]
    IN IF st.status # "running" \/ line = << >> THEN st
       ELSE IF line[1] = "[" THEN
            IF line = TagHeader THEN [st EXCEPT !.current_section = "header"]
            ELSE IF StartsWith(line, TagIndex) THEN
                 IF n = ValueError THEN [st EXCEPT !.status = "raised"]
                 ELSE IF OutOfOrder(n[1], st.strings)
                      THEN [st EXCEPT !.current_section = "index",
                                      !.current_index = n, !.status = "none",
                                      !.strings = None, !.header = [k \in {} |-> << >>]]
                      ELSE [st EXCEPT !.current_section = "index",
                                      !.current_index = n,
                                      !.strings = Append(@, << >>)]
            ELSE [st EXCEPT !.current_section = "None"]
       ELSE IF st.current_section = "header" THEN
            IF eq # 0
            THEN [st EXCEPT !.header = DictSet(@, Strip(SubSeq(line, 1, eq - 1)),
                                               Strip(SubSeq(line, eq + 1, Len(line))))]
            ELSE st
       ELSE IF st.current_section = "index" /\ st.current_index # None
               /\ 1 <= ci /\ ci <= Len(st.strings) THEN
            IF st.strings[ci] # << >>
            THEN [st EXCEPT !.strings[ci] = @ \o NL \o line]
            ELSE [st EXCEPT !.strings[ci] = line]
       ELSE st

RECURSIVE ParseLines(_, _)
ParseLines(st, lines) ==
    IF lines = << >> THEN st ELSE ParseLines(ParseLine(st, Head(lines)), Tail(lines))

\* parse_txt of a file holding `text`
ParseTxt(text) == ParseLines(ParseStart, SplitLines(text))

-----------------------------------------------------------------------------
(* process_scw *)

\* header_txt.get(key, -1) followed by int(): a value of the document is text
\* and goes through int(); the default is the integer -1
DeclaredCount(header, key) ==
    IF key \in DOMAIN header THEN ParseInt(header[key]) ELSE <<0 - 1>>

RECURSIVE EncodeAll(_)
\* lines 102-111
EncodeAll(strings) ==
    IF strings = << >> THEN << >>
    ELSE <<EncodeStr(Head(strings)) \o <<0>>>> \o EncodeAll(Tail(strings))

\* struct.pack_into('<II', buf, off, a, b)
PackInto(buf, off, a, b) ==
    SubSeq(buf, 1, off) \o PackEntry(a, b) \o SubSeq(buf, off + IndexEntryLen + 1, Len(buf))

\* what line 132 stores in string entry i
NewEntryStart(current_offset) == current_offset

RECURSIVE Reindex(_, _, _, _, _)
\* the loop of lines 126-133 from string i on: the patched index table, or None
\* when unpack_from (an entry beyond the buffer) or new_str_list[i] (no such
\* string) raises
Reindex(new_index, h, new_str_list, i, current_offset) ==
    LET entry_offset == h.command_count * IndexEntryLen + i * IndexEntryLen
    IN IF i >= h.string_count THEN Some(new_index)
       ELSE IF entry_offset + IndexEntryLen > Len(new_index) THEN None
       ELSE IF i + 1 > Len(new_str_list) THEN None
       ELSE Reindex(PackInto(new_index, entry_offset, NewEntryStart(current_offset),
                             Len(new_str_list[i + 1])),
                    h, new_str_list, i + 1, current_offset + Len(new_str_list[i + 1]))

\* the comparison of line 97
CountMismatch(str_count_txt, text_count_txt, h) ==
    str_count_txt # h.string_count \/ text_count_txt # h.text_count

\* process_scw from line 94 on, given what parse_txt returned: ret is the value
\* returned and out the file written at the output path (None when none is)
Assemble(f, parsed) ==
    LET h == f.hdr
        content == ReadAt(f.body, 0, h.content_length)
        index_end == IndexSize(h)
        cmd_end == index_end + h.command_size
        str_end == cmd_end + h.string_size
        addon_end == str_end + h.addon_size
        index_data == Slice(content, 0, index_end)
        cmd_data == Slice(content, index_end, cmd_end)
        addon_data == Slice(content, str_end, addon_end)
        str_count_txt == DeclaredCount(parsed.header, KeyStringCount)
        text_count_txt == DeclaredCount(parsed.header, KeyTextCount)
        new_str_list == EncodeAll(parsed.strings)
        new_str_data == Concat(new_str_list)
        new_index == Reindex(index_data, h, new_str_list, 0, 0)
        new_content == new_index[1] \o cmd_data \o new_str_data \o addon_data
        failure == [ret |-> FALSE, out |-> None]
    IN IF f.hdrLen < FileHeadLen THEN failure
       ELSE IF parsed.status = "raised" THEN failure
       ELSE IF DOMAIN parsed.header = {} \/ parsed.strings = << >> THEN failure
       ELSE IF str_count_txt = ValueError \/ text_count_txt = ValueError THEN failure
       ELSE IF CountMismatch(str_count_txt[1], text_count_txt[1], h) THEN failure
       ELSE IF new_index = None THEN failure
       ELSE [ret |-> TRUE,
             out |-> Some([hdr |-> [h EXCEPT !.content_length = Len(new_content),
                                             !.string_size = Len(new_str_data)],
                           hdrLen |-> FileHeadLen,
                           body |-> new_content])]

\* process_scw(scw_path, txt_path, output_path)
ProcessScw(f, text) == Assemble(f, ParseTxt(text))

-----------------------------------------------------------------------------
(* Input containers *)

\* the bytes of one command and of one addon blob (opaque to the tools)
CmdBytes == <<17, 34>>
AddonBytes == <<51>>

RECURSIVE Repeat(_, _)
Repeat(bs, n) == IF n = 0 THEN << >> ELSE bs \o Repeat(bs, n - 1)

RECURSIVE GroupEntries(_, _, _)
\* index entries of a group of n blobs of the same size, laid out one after another
GroupEntries(n, size, i) ==
    IF i >= n THEN << >> ELSE PackEntry(i * size, size) \o GroupEntries(n, size, i + 1)

RECURSIVE StringEntries(_, _)
StringEntries(encoded, start) ==
    IF encoded = << >> THEN << >>
    ELSE PackEntry(start, Len(Head(encoded)))
         \o StringEntries(Tail(encoded), start + Len(Head(encoded)))

RECURSIVE Padded(_, _)
\* each string encoded, NUL-terminated and followed by pad more NULs
Padded(strings, pad) ==
    IF strings = << >> THEN << >>
    ELSE <<EncodeStr(Head(strings)) \o Repeat(<<0>>, 1 + pad)>> \o Padded(Tail(strings), pad)

\* A well-formed container: ncmd commands, the strings (each with pad padding
\* NULs after its terminator), naddon addon blobs, and the given textCount.
MkContainer(ncmd, strings, pad, naddon, text_count) ==
    LET encoded == Padded(strings, pad)
        index == GroupEntries(ncmd, Len(CmdBytes), 0) \o StringEntries(encoded, 0)
                 \o GroupEntries(naddon, Len(AddonBytes), 0)
        body == index \o Repeat(CmdBytes, ncmd) \o Concat(encoded) \o Repeat(AddonBytes, naddon)
    IN [hdr |-> [magic |-> Magic, main_version |-> 1, is_compressed |-> 0,
                 content_length |-> Len(body), compressed_len |-> 0, minor_version |-> 2,
                 command_count |-> ncmd, string_count |-> Len(strings),
                 addon_count |-> naddon, command_size |-> ncmd * Len(CmdBytes),
                 string_size |-> SumLen(encoded), addon_size |-> naddon * Len(AddonBytes),
                 padding1 |-> 7, text_count |-> text_count, padding2 |-> "P",
                 description |-> <<"d">>],
        hdrLen |-> FileHeadLen,
        body |-> body]

\* the same file with another magic tag
WithMagic(f, magic) == [f EXCEPT !.hdr.magic = magic]
\* the same file cut after its first n bytes
CutAt(f, n) ==
    [f EXCEPT !.hdrLen = Min(n, FileHeadLen),
              !.body = SubSeq(f.body, 1, Min(Max(n - FileHeadLen, 0), Len(f.body)))]
\* the same file with a header that declares n content bytes fewer than it has
Undeclare(f, n) == [f EXCEPT !.hdr.content_length = Max(@ - n, 0)]

-----------------------------------------------------------------------------
(* Bounds of the model *)

\* files of one batch run
MaxFiles == 2
\* strings of a sample container, and padding NULs after a string's terminator
MaxStrings == 2
MaxPad == 1
\* lines of a text document read by the line-by-line scan, and the largest
\* position an [Index=N] line of it names
MaxDocLines == 5
MaxIndex == 2
\* strings of a round-trip container and characters of each
MaxTableLen == 2
MaxStrLen == 2

-----------------------------------------------------------------------------
(* State *)

VARIABLES
    pc,               \* where the running program is
    files,            \* the input files of the batch, in os.walk order
    idx,              \* position in files of the next one to handle
    processed_count,  \* extract main
    error_count,      \* extract main
    success,          \* write main
    failed,           \* write main
    warnings,         \* write main
    new_scr,          \* paths of the files written under NEW_SCR
    scw,              \* the container last read (None before the first)
    txt,              \* the text document last written or read (None: no file)
    out,              \* the container last written by process_scw (None: no file)
    ret,              \* what process_scw last returned
    st,               \* parse_txt's locals during a line-by-line scan
    lines,            \* the lines of the document read so far by that scan
    strings,          \* the strings decoded by the first extraction
    restrings         \* the strings decoded by the extraction of the rebuilt file

vars == <<pc, files, idx, processed_count, error_count, success, failed, warnings,
          new_scr, scw, txt, out, ret, st, lines, strings, restrings>>

extractVars == <<processed_count, error_count>>
writeVars == <<success, failed, warnings, new_scr>>
scanVars == <<st, lines>>
tripVars == <<strings, restrings>>

IdleBatch ==
    /\ files = << >> /\ idx = 1
    /\ processed_count = 0 /\ error_count = 0
    /\ success = 0 /\ failed = 0 /\ warnings = 0 /\ new_scr = {}
IdleFile == scw = None /\ txt = None /\ out = None /\ ret = FALSE
IdleScan == st = ParseStart /\ lines = << >>
IdleTrip == strings = << >> /\ restrings = << >>

SeqsUpTo(S, n) == UNION {[1..k -> S] : k \in 0..n}

BadMagic == <<"S", "c", "w", "3", ".", "x">>

\* n strings of growing length: "A", "AkaA", ...
SampleTable(n) == [i \in 1..n |-> Repeat(<<"A", "ka">>, i - 1) \o <<"A">>]

-----------------------------------------------------------------------------
(* GsPack4_Scw4_extract.py: main *)

\* The files main finds under SCR: well-formed containers, and the same with
\* another magic, cut inside the fixed header fields, cut right after them, cut
\* inside the index table, or cut after it.
ExtractSamples ==
    {MkContainer(1, SampleTable(n), pad, na, tc) :
        n \in 0..MaxStrings, pad \in 0..MaxPad, na \in 0..1, tc \in 0..1}
ExtractInputs ==
    UNION {{c, WithMagic(c, BadMagic), CutAt(c, FixedFieldsLen - 1), CutAt(c, FixedFieldsLen),
            CutAt(c, FileHeadLen + IndexSize(c.hdr) - IndexEntryLen),
            CutAt(c, FileHeadLen + IndexSize(c.hdr) - 1),
            CutAt(c, FileHeadLen + IndexSize(c.hdr))} : c \in ExtractSamples}

\* extension-less files f1, f2, ... of SCR
ScrFiles(n) == [i \in 1..n |-> [dir |-> << >>, base |-> StrOfInt(i)]]

ExtractInit ==
    /\ pc = "extract"
    /\ files \in {ScrFiles(n) : n \in 0..MaxFiles}
    /\ idx = 1
    /\ processed_count = 0 /\ error_count = 0
    /\ success = 0 /\ failed = 0 /\ warnings = 0 /\ new_scr = {}
    /\ IdleFile /\ IdleScan /\ IdleTrip

\* one iteration of the loop of lines 107-134: the file is extracted; the
\* document, if one was written, is moved to TXT and counted as processed; no
\* document (line 128) or a failed move (line 132) counts as an error
ExtractFile ==
    /\ pc = "extract"
    /\ idx <= Len(files)
    /\ \E f \in ExtractInputs, renamed \in BOOLEAN :
          LET r == ExtractScwFile(f)
          IN /\ scw' = Some(f)
             /\ txt' = r.doc
             /\ IF r.doc # None /\ renamed
                THEN processed_count' = processed_count + 1 /\ error_count' = error_count
                ELSE processed_count' = processed_count /\ error_count' = error_count + 1
    /\ idx' = idx + 1
    /\ UNCHANGED <<pc, files, writeVars, out, ret, scanVars, tripVars>>

\* lines 136-150
ExtractSummary ==
    /\ pc = "extract"
    /\ idx > Len(files)
    /\ pc' = "extract_summary"
    /\ UNCHANGED <<files, idx, extractVars, writeVars, scw, txt, out, ret, scanVars, tripVars>>

ExtractNext == ExtractFile \/ ExtractSummary

SpecExtract == ExtractInit /\ [][ExtractNext]_vars

-----------------------------------------------------------------------------
(* process_scw with parse_txt read line by line *)

LineCount(key, n) == key \o Assign \o StrOfInt(n)
LineIndex(n) == TagIndex \o StrOfInt(n) \o <<"]">>

\* the lines a document is made of: the header tag, the two count lines, a
\* line of text, a blank line, the tag of a section the tools do not know, an
\* index tag whose position is no number, and index tags 1..MaxIndex
DocLines ==
    {TagHeader, LineCount(KeyStringCount, 1), LineCount(KeyTextCount, 1), <<"A">>, << >>,
     <<"[", "x", "]">>, TagIndex \o <<"A", "]">>}
    \cup {LineIndex(n) : n \in 1..MaxIndex}

ScanInputs == {MkContainer(1, SampleTable(1), 0, 1, 1)}

ScanInit ==
    /\ pc = "scan"
    /\ scw \in {Some(c) : c \in ScanInputs}
    /\ txt = None /\ out = None /\ ret = FALSE
    /\ IdleBatch /\ IdleScan /\ IdleTrip

\* parse_txt reads the next line of the file (lines 34-61)
ScanLine ==
    /\ pc = "scan"
    /\ st.status = "running"
    /\ Len(lines) < MaxDocLines
    /\ \E raw \in DocLines :
          /\ lines' = Append(lines, raw)
          /\ st' = ParseLine(st, raw)
    /\ UNCHANGED <<pc, files, idx, extractVars, writeVars, scw, txt, out, ret, tripVars>>

\* parse_txt returns (at the end of the file, or at line 47) or raises, and
\* process_scw runs to its end (lines 90-156)
ScanReturn ==
    /\ pc = "scan"
    /\ LET r == Assemble(scw[1], st)
       IN out' = r.out /\ ret' = r.ret
    /\ pc' = "scan_done"
    /\ UNCHANGED <<files, idx, extractVars, writeVars, scw, txt, scanVars, tripVars>>

ScanNext == ScanLine \/ ScanReturn

SpecScan == ScanInit /\ [][ScanNext]_vars

-----------------------------------------------------------------------------
(* GsPack4_Scw4_write.py: main *)

\* the extension-less files of SCR, by name (lines 197-201)
ScrNames == {<<"a">>, <<"b">>}

\* the .txt files that may lie under TXT: a.txt, c.txt (no container is named
\* c) and a/b.txt
TxtFiles ==
    {[dir |-> << >>, base |-> <<"a">>], [dir |-> << >>, base |-> <<"c">>],
     [dir |-> <<(<<"a">>)>>, base |-> <<"b">>]}

\* os.walk hands out the files of a directory before those of its subdirectories
WalkOrders ==
    {w \in SeqsUpTo(TxtFiles, MaxFiles) :
        /\ \A i, j \in 1..Len(w) : i < j => w[i] # w[j] /\ Len(w[i].dir) <= Len(w[j].dir)}

\* the containers under SCR: well-formed ones, and the same with another magic,
\* cut inside the header, or with a header declaring fewer content bytes than
\* its regions take (the addon region, the string region or the index table
\* is then not all inside the content)
WriteSamples ==
    {MkContainer(1, SampleTable(n), pad, 1, 1) : n \in 1..MaxStrings, pad \in {0, MaxPad}}
WriteInputs ==
    WriteSamples
    \cup UNION {{WithMagic(c, BadMagic), CutAt(c, FixedFieldsLen),
                 Undeclare(c, 1), Undeclare(c, c.hdr.addon_size + 1),
                 Undeclare(c, Len(c.body) - IndexSize(c.hdr) + 1)}
                : c \in {MkContainer(1, SampleTable(n), 0, 1, 1) : n \in 1..MaxStrings}}

\* n translated strings, the second of them with a character cp932 lacks
EditedTable(n) ==
    [i \in 1..n |-> IF i = 2 THEN <<"B", "euro">> ELSE Repeat(<<"ka">>, i) \o <<"B">>]

\* the documents under TXT: documents as the extractor writes them, with any
\* declared counts and any number of sections; one without the two count
\* lines; and one with its section twice
WriteDocs ==
    {WriteDocument(sc, 1, <<"d">>, EditedTable(n)) : sc \in 1..MaxStrings, n \in 0..(MaxStrings + 1)}
    \cup {TagHeader \o NL \o WriteSections(EditedTable(1), 1),
          WriteDocument(1, 1, <<"d">>, EditedTable(1)) \o WriteSections(EditedTable(1), 1)}

\* the path, below NEW_SCR, of the output of a text file (lines 218-219)
OutputPath(t) == t.dir \o <<t.base>>

\* os.makedirs(dirname, exist_ok=True) raises FileExistsError when the
\* directory or one above it exists as a regular file
MakedirsRaises(t) == \E k \in 1..Len(t.dir) : SubSeq(t.dir, 1, k) \in new_scr

Init ==
    /\ pc = "write"
    /\ files \in WalkOrders
    /\ idx = 1
    /\ processed_count = 0 /\ error_count = 0
    /\ success = 0 /\ failed = 0 /\ warnings = 0 /\ new_scr = {}
    /\ IdleFile /\ IdleScan /\ IdleTrip

\* lines 208-213: no container has the name of the text file
WriteNoScw ==
    /\ pc = "write" /\ idx <= Len(files)
    /\ files[idx].base \notin ScrNames
    /\ warnings' = warnings + 1
    /\ idx' = idx + 1
    /\ UNCHANGED <<pc, files, extractVars, success, failed, new_scr, scw, txt, out, ret,
                   scanVars, tripVars>>

\* line 220 raises: nothing in main catches it and the program ends there
WriteMakedirsFails ==
    /\ pc = "write" /\ idx <= Len(files)
    /\ files[idx].base \in ScrNames
    /\ MakedirsRaises(files[idx])
    /\ pc' = "crashed"
    /\ UNCHANGED <<files, idx, extractVars, writeVars, scw, txt, out, ret, scanVars, tripVars>>

\* lines 215-226: process_scw on the container and the document
WriteProcess ==
    /\ pc = "write" /\ idx <= Len(files)
    /\ files[idx].base \in ScrNames
    /\ ~MakedirsRaises(files[idx])
    /\ \E f \in WriteInputs, doc \in WriteDocs :
          LET r == ProcessScw(f, doc)
          IN /\ scw' = Some(f) /\ txt' = Some(doc)
             /\ out' = r.out /\ ret' = r.ret
             /\ new_scr' = IF r.out # None THEN new_scr \cup {OutputPath(files[idx])}
                           ELSE new_scr
             /\ IF r.ret THEN success' = success + 1 /\ failed' = failed
                ELSE success' = success /\ failed' = failed + 1
    /\ idx' = idx + 1
    /\ UNCHANGED <<pc, files, extractVars, warnings, scanVars, tripVars>>

\* lines 228-250
WriteSummary ==
    /\ pc = "write" /\ idx > Len(files)
    /\ pc' = "write_summary"
    /\ UNCHANGED <<files, idx, extractVars, writeVars, scw, txt, out, ret, scanVars, tripVars>>

Next == WriteNoScw \/ WriteMakedirsFails \/ WriteProcess \/ WriteSummary

Spec == Init /\ [][Next]_vars

-----------------------------------------------------------------------------
(* Extract, rebuild from the unmodified document, extract again *)

TripAlphabet == {"A", " ", "[", "\n", "ka"}
TripStrings == SeqsUpTo(TripAlphabet, MaxStrLen)
TripInputs ==
    {MkContainer(1, t, pad, 1, 1) : t \in SeqsUpTo(TripStrings, MaxTableLen), pad \in 0..MaxPad}

TripInit ==
    /\ pc = "trip_extract"
    /\ scw \in {Some(c) : c \in TripInputs}
    /\ txt = None /\ out = None /\ ret = FALSE
    /\ IdleBatch /\ IdleScan /\ IdleTrip

\* extract_scw_file on the original container
TripExtract ==
    /\ pc = "trip_extract"
    /\ LET r == ExtractScwFile(scw[1])
       IN txt' = r.doc /\ strings' = r.strings
    /\ pc' = "trip_rebuild"
    /\ UNCHANGED <<files, idx, extractVars, writeVars, scw, out, ret, scanVars, restrings>>

\* process_scw on the original container and the document just written
TripRebuild ==
    /\ pc = "trip_rebuild" /\ txt # None
    /\ LET r == ProcessScw(scw[1], txt[1])
       IN out' = r.out /\ ret' = r.ret
    /\ pc' = "trip_reextract"
    /\ UNCHANGED <<files, idx, extractVars, writeVars, scw, txt, scanVars, tripVars>>

\* extract_scw_file on the rebuilt container
TripReExtract ==
    /\ pc = "trip_reextract" /\ out # None
    /\ restrings' = ExtractScwFile(out[1]).strings
    /\ pc' = "trip_done"
    /\ UNCHANGED <<files, idx, extractVars, writeVars, scw, txt, out, ret, scanVars, strings>>

\* no container was rebuilt: there is nothing to extract again
TripNoOutput ==
    /\ pc = "trip_reextract" /\ out = None
    /\ pc' = "trip_failed"
    /\ UNCHANGED <<files, idx, extractVars, writeVars, scw, txt, out, ret, scanVars, tripVars>>

TripNext == TripExtract \/ TripRebuild \/ TripReExtract \/ TripNoOutput

SpecRoundTrip == TripInit /\ [][TripNext]_vars

-----------------------------------------------------------------------------
(* Properties of the line-by-line scan *)

\* the positions N named by the [Index=N] lines of a document, in order
RECURSIVE IndexNumbers(_)
IndexNumbers(ls) ==
    IF ls = << >> THEN << >>
    ELSE LET line == Strip(Head(ls))
         IN (IF StartsWith(line, TagIndex)
             THEN ParseInt(RStripBracket(SubSeq(line, Len(TagIndex) + 1, Len(line))))
             ELSE << >>) \o IndexNumbers(Tail(ls))

\* every section header names the position after the ones before it
Ascending(ns) == \A i \in 1..Len(ns) : ns[i] = i

\* C7: parse_txt accepts an [Index=N] header only if N is the number of
\* sections accepted so far plus one. While it runs, the headers read are
\* 1, 2, .., k and the string list has exactly k entries. At the first header
\* out of order it stops on that very line and hands back neither strings nor
\* header fields, and process_scw then returns False and writes no output.
SectionOrder ==
    LET ns == IndexNumbers(lines)
    IN /\ st.status = "running" => Ascending(ns) /\ Len(st.strings) = Len(ns)
       /\ ~Ascending(ns) =>
             /\ st.status = "none"
             /\ Ascending(SubSeq(ns, 1, Len(ns) - 1))
             /\ StartsWith(Strip(lines[Len(lines)]), TagIndex)
             /\ st.strings = None /\ DOMAIN st.header = {}
       /\ (pc = "scan_done" /\ ~Ascending(ns)) => ret = FALSE /\ out = None
       /\ (pc = "scan_done" /\ out # None) => Ascending(ns) /\ Len(st.strings) = Len(ns)

\* a document whose second section header is out of order has been refused
SectionOrderWitness ==
    /\ pc = "scan_done"
    /\ Len(IndexNumbers(lines)) >= 2
    /\ ~Ascending(IndexNumbers(lines))
    /\ ret = FALSE /\ out = None

\* a document of two sections in order has been parsed and rebuilt
SectionOrderAccepted ==
    /\ pc = "scan_done"
    /\ IndexNumbers(lines) = <<1, 2>>
    /\ out # None

-----------------------------------------------------------------------------
(* Properties of the extractor *)

\* fewer bytes follow the header than the index table the header declares
IndexTruncated(f) == Len(f.body) < IndexSize(f.hdr)

\* C9: a container whose file ends inside the declared index table gets no
\* text document from extract_scw_file.
TruncatedIndexNoDocument ==
    (pc \in {"extract", "extract_summary"} /\ scw # None /\ IndexTruncated(scw[1]))
        => txt = None

\* a file with a good header and a complete first string entry, cut inside the
\* index table, has been handled and counted as an error
TruncatedIndexWitness ==
    /\ pc = "extract" /\ scw # None /\ txt = None /\ error_count >= 1
    /\ scw[1].hdr.magic = Magic /\ scw[1].hdrLen = FileHeadLen
    /\ scw[1].hdr.text_count # 0 /\ scw[1].hdr.string_count >= 2
    /\ Len(scw[1].body) >= (scw[1].hdr.command_count + 1) * IndexEntryLen
    /\ IndexTruncated(scw[1])

\* a well-formed container that holds no text
IsSkip(f) == f.hdr.magic = Magic /\ f.hdrLen = FileHeadLen /\ f.hdr.text_count = 0

\* C8: a container whose textCount is 0 gets no text document, and the batch
\* run does not add it to the error count.
SkipIsNotAnError ==
    [][(pc = "extract" /\ idx' = idx + 1 /\ IsSkip(scw'[1]))
          => (txt' = None /\ error_count' = error_count)]_vars

-----------------------------------------------------------------------------
(* Properties of process_scw, on the last call of the batch *)

\* the content region of a container: the bytes after the header, as many as
\* the header says, and its four parts by the sizes of the header
Content(f) == ReadAt(f.body, 0, f.hdr.content_length)
IndexTable(f) == Slice(Content(f), 0, IndexSize(f.hdr))
CommandRegion(f) == Slice(Content(f), IndexSize(f.hdr), IndexSize(f.hdr) + f.hdr.command_size)
AddonRegion(f) ==
    Slice(Content(f), IndexSize(f.hdr) + f.hdr.command_size + f.hdr.string_size,
          IndexSize(f.hdr) + f.hdr.command_size + f.hdr.string_size + f.hdr.addon_size)
CommandEntries(f) == Slice(IndexTable(f), 0, f.hdr.command_count * IndexEntryLen)
AddonEntries(f) ==
    Slice(IndexTable(f), (f.hdr.command_count + f.hdr.string_count) * IndexEntryLen,
          IndexSize(f.hdr))
\* string entry i (from 0) of a container
EntryStart(f, i) == Unpack32(IndexTable(f), (f.hdr.command_count + i) * IndexEntryLen)
EntryLength(f, i) == Unpack32(IndexTable(f), (f.hdr.command_count + i) * IndexEntryLen + 4)

\* process_scw has written a container
Written == pc \in {"write", "write_summary", "crashed"} /\ out # None

\* the strings of the document process_scw read
NewStrings == ParseTxt(txt[1]).strings

\* C2: an output container is written only if the document holds as many
\* strings as the original header's stringCount and declares the header's
\* STRING_COUNT and TEXT_COUNT; otherwise process_scw fails and writes nothing.
CountsValidated ==
    /\ Written =>
          /\ Len(NewStrings) = scw[1].hdr.string_count
          /\ DeclaredCount(ParseTxt(txt[1]).header, KeyStringCount) = <<scw[1].hdr.string_count>>
          /\ DeclaredCount(ParseTxt(txt[1]).header, KeyTextCount) = <<scw[1].hdr.text_count>>
    /\ (pc \in {"write", "write_summary", "crashed"} /\ ret) => out # None

\* C3: in a written container contentLength is the length of the new content
\* and stringSize the length of the new string region; every other header
\* field, the command region, the addon region and the command and addon
\* index entries are those of the original.
RebuildFrame ==
    Written =>
        /\ out[1].hdr.content_length = Len(out[1].body)
        /\ out[1].hdr.string_size = SumLen(EncodeAll(NewStrings))
        /\ [out[1].hdr EXCEPT !.content_length = scw[1].hdr.content_length,
                              !.string_size = scw[1].hdr.string_size] = scw[1].hdr
        /\ CommandRegion(out[1]) = CommandRegion(scw[1])
        /\ AddonRegion(out[1]) = AddonRegion(scw[1])
        /\ CommandEntries(out[1]) = CommandEntries(scw[1])
        /\ AddonEntries(out[1]) = AddonEntries(scw[1])

RECURSIVE Tiles(_, _, _)
\* string entries i.. of f lie one after another from offset `from` on, each as
\* long as its string encoded with one NUL, and end at stringSize
Tiles(f, i, from) ==
    IF i >= f.hdr.string_count THEN from = f.hdr.string_size
    ELSE /\ (f.hdr.command_count + i + 1) * IndexEntryLen <= Len(IndexTable(f))
         /\ i + 1 <= Len(NewStrings)
         /\ EntryStart(f, i) = from
         /\ EntryLength(f, i) = Len(EncodeStr(NewStrings[i + 1])) + 1
         /\ Tiles(f, i + 1, from + EntryLength(f, i))

\* C4: in a written container the string entries tile the new string region:
\* the first starts at 0, each next one where the one before ends, each is as
\* long as its encoded string with its NUL, and the last ends at stringSize.
GaplessRepacking == Written => Tiles(out[1], 0, 0)

\* C5: a container is written only from an input of at least 0x1C4 bytes
\* whose magic is Scw4.x.
MagicValidated ==
    Written => scw[1].hdr.magic = Magic /\ scw[1].hdrLen >= FileHeadLen

\* C6: a container is written only if the index table and the three regions
\* the header declares fit in the content bytes that are there.
RegionsFit ==
    Written =>
        IndexSize(scw[1].hdr) + scw[1].hdr.command_size + scw[1].hdr.string_size
        + scw[1].hdr.addon_size <= Len(Content(scw[1]))

\* C10: every file of the batch is attempted once and counted once, the
\* failure of a file does not end the run, and the run reaches its summary
\* with counters that add up to the number of files.
BatchIsolation ==
    /\ pc # "crashed"
    /\ pc \in {"write", "write_summary"} => success + failed + warnings = idx - 1
    /\ pc \in {"extract", "extract_summary"} => processed_count + error_count = idx - 1
    /\ pc \in {"write_summary", "extract_summary"} => idx - 1 = Len(files)

-----------------------------------------------------------------------------
(* Property of the round trip *)

\* C1: extracting a valid container, rebuilding it from the unmodified
\* document and extracting the result gives the same strings in the same
\* order, as many as stringCount.
RoundTrip ==
    /\ pc # "trip_failed"
    /\ pc = "trip_done" =>
          /\ restrings = strings
          /\ Len(strings) = scw[1].hdr.string_count

====
